---- MODULE Spec2Model ----
(***************************************************************************)
(* TabbedViews (wandb/board/ui/src/components/TabbedViews.js): a React     *)
(* component with one state field, editMode, that renders a tab strip and  *)
(* two buttons and forwards gestures to the callbacks addView,             *)
(* setActiveView and updateViews given by its parent.                      *)
(*                                                                         *)
(* props and state are this.props and this.state; rendered is the output   *)
(* of the last render(), which React runs after every change of props or   *)
(* state; calls is the list of callback invocations made by the last       *)
(* gesture.  event and nToggle are history variables: the last gesture,    *)
(* and the number of toggle clicks since the mount or the last call of     *)
(* updateViews (counted up to MaxToggles).                                 *)
(***************************************************************************)
EXTENDS Integers, Sequences, FiniteSets, TLC

VARIABLES props, state, rendered, calls, event, nToggle

vars == <<props, state, rendered, calls, event, nToggle>>

(***************************************************************************)
(* Bounds.                                                                 *)
(***************************************************************************)
MaxTabs == 2
MaxToggles == 3

(***************************************************************************)
(* JavaScript values.  One record shape for all of them so that values of  *)
(* different JavaScript types can be compared: t is the typeof tag, s the  *)
(* payload of a string, n of a number, a of an array of numbers.           *)
(***************************************************************************)
Undefined == [t |-> "undefined", s |-> "", n |-> 0, a |-> <<>>]
Null == [t |-> "null", s |-> "", n |-> 0, a |-> <<>>]
Str(x) == [t |-> "string", s |-> x, n |-> 0, a |-> <<>>]
Num(k) == [t |-> "number", s |-> "", n |-> k, a |-> <<>>]
Arr(e) == [t |-> "array", s |-> "", n |-> 0, a |-> e]

\* _.isNil(value): value is null or undefined
isNil(v) == v.t \in {"undefined", "null"}

(***************************************************************************)
(* The inputs the parent can hand to the component.                        *)
(***************************************************************************)
TabIds == {"a", ""}

RECURSIVE SeqsUpTo(_, _)
SeqsUpTo(S, n) ==
  IF n = 0 THEN {<<>>}
  ELSE LET shorter == SeqsUpTo(S, n - 1)
       IN shorter \cup {Append(q, x) : q \in {r \in shorter : Len(r) = n - 1}, x \in S}

TabSets == SeqsUpTo(TabIds, MaxTabs)

\* the views prop: an object from view id to a record with a name
ViewRegistries ==
  { [id \in {"a", ""} |-> [name |-> IF id = "a" THEN "Alpha" ELSE "Beta"]],
    [id \in {"a"} |-> [name |-> "Alpha"]] }

ActiveViews == {Undefined, Null, Str("a"), Str(""), Str("z")}
ViewTypes == {Str("runs"), Str("run")}
ViewStates == {Undefined, Null, Num(12), Str("a"), Arr(<<1, 2>>)}

Range(q) == {q[k] : k \in 1..Len(q)}

\* render() reads this.props.views[viewId].name for every id of tabs and
\* throws when the entry is missing; the parent supplies an entry for each.
RenderDoesNotThrow(p) == Range(p.tabs) \subseteq DOMAIN p.views

PropsSets ==
  { p \in [tabs : TabSets, views : ViewRegistries, activeView : ActiveViews,
           blank : BOOLEAN, viewType : ViewTypes, isModified : BOOLEAN,
           viewState : ViewStates] : RenderDoesNotThrow(p) }

(***************************************************************************)
(* JSON.stringify on the values above.                                     *)
(***************************************************************************)
Digits == <<"0", "1", "2", "3", "4", "5", "6", "7", "8", "9">>

RECURSIVE NumberToString(_)
NumberToString(k) ==
  IF k < 10 THEN Digits[k + 1]
  ELSE NumberToString(k \div 10) \o Digits[(k % 10) + 1]

RECURSIVE JoinNumbers(_)
JoinNumbers(e) ==
  IF Len(e) = 0 THEN ""
  ELSE IF Len(e) = 1 THEN NumberToString(e[1])
  ELSE NumberToString(e[1]) \o "," \o JoinNumbers(Tail(e))

JSONstringify(v) ==
  CASE v.t = "undefined" -> Undefined
    [] v.t = "null" -> Str("null")
    [] v.t = "number" -> Str(NumberToString(v.n))
    [] v.t = "string" -> Str("\"" \o v.s \o "\"")
    [] v.t = "array" -> Str("[" \o JoinNumbers(v.a) \o "]")

(***************************************************************************)
(* render()                                                                *)
(***************************************************************************)
\* the pane pushed in edit mode: a Menu.Item with key "add" and a plus icon
AddPane == [kind |-> "add", key |-> "add", content |-> "plus", editMode |-> TRUE]

\* one pane per entry of tabs; the body is renderView(viewId, editMode)
ViewPane(viewId, views, editMode) ==
  [kind |-> "view", key |-> viewId, content |-> views[viewId].name \o " ",
   editMode |-> editMode]

PanesAlwaysAdd(tabs, views, editMode) ==
  Append([k \in 1..Len(tabs) |-> ViewPane(tabs[k], views, editMode)], AddPane)

Panes(tabs, views, editMode) ==
  LET panes == [k \in 1..Len(tabs) |-> ViewPane(tabs[k], views, editMode)]
  IN IF editMode THEN Append(panes, AddPane) ELSE panes

indexOfLast(array, value) ==
  LET hits == {k \in 1..Len(array) : value.t = "string" /\ array[k] = value.s}
  IN IF hits = {} THEN -1
     ELSE (CHOOSE k \in hits : \A j \in hits : k >= j) - 1

\* _.indexOf(array, value): the 0-based index of the first element that is
\* strictly equal to value, -1 when there is none
indexOf(array, value) ==
  LET hits == {k \in 1..Len(array) : value.t = "string" /\ array[k] = value.s}
  IN IF hits = {} THEN -1
     ELSE (CHOOSE k \in hits : \A j \in hits : k <= j) - 1

ActiveIndexNoFallback(tabs, activeView) ==
  IF isNil(activeView) THEN 0 ELSE indexOf(tabs, activeView)

ActiveIndex(tabs, activeView) ==
  IF isNil(activeView) THEN 0
  ELSE LET activeIndex == indexOf(tabs, activeView)
       IN IF activeIndex = -1 THEN 0 ELSE activeIndex

TabShownIgnoringEditMode(blank, editMode) == ~blank

\* the condition under which <Tab> is part of the output
TabShown(blank, editMode) == ~blank \/ editMode

Render(p, st) ==
  [ saveButton |-> st.editMode,
    saveDisabled |-> ~p.isModified,
    toggleContent |-> IF st.editMode THEN "View Charts" ELSE "Edit Charts",
    toggleIcon |-> IF st.editMode THEN "unhide" ELSE "configure",
    tab |-> TabShown(p.blank, st.editMode),
    panes |-> Panes(p.tabs, p.views, st.editMode),
    activeIndex |-> ActiveIndex(p.tabs, p.activeView) ]

(***************************************************************************)
(* Callback invocations.                                                   *)
(***************************************************************************)
Call(fn, args) == [fn |-> fn, args |-> args]

\* this.props.tabs[activeIndex] || activeIndex
TabIdOrIndex(tabs, activeIndex) ==
  IF activeIndex + 1 \in 1..Len(tabs) /\ tabs[activeIndex + 1] # ""
  THEN Str(tabs[activeIndex + 1])
  ELSE Num(activeIndex)

Bump(k) == IF k < MaxToggles THEN k + 1 ELSE k

(***************************************************************************)
(* Initial state: mounted with any props, editMode false.                  *)
(***************************************************************************)
Init ==
  /\ props \in PropsSets
  /\ state = [editMode |-> FALSE]
  /\ rendered = Render(props, state)
  /\ calls = <<>>
  /\ event = [type |-> "mount", index |-> 0, enabled |-> TRUE]
  /\ nToggle = 0

(***************************************************************************)
(* Gestures.                                                               *)
(***************************************************************************)
ToggleClickSetsTrue ==
  /\ state' = [editMode |-> TRUE]
  /\ calls' = <<>>
  /\ event' = [type |-> "toggle", index |-> 0, enabled |-> TRUE]
  /\ rendered' = Render(props, state')
  /\ nToggle' = Bump(nToggle)
  /\ UNCHANGED props

\* click on the Edit Charts / View Charts button
ToggleClick ==
  /\ state' = [editMode |-> ~state.editMode]
  /\ calls' = <<>>
  /\ event' = [type |-> "toggle", index |-> 0, enabled |-> TRUE]
  /\ rendered' = Render(props, state')
  /\ nToggle' = Bump(nToggle)
  /\ UNCHANGED props

SaveClickKeepsEditMode ==
  /\ rendered.saveButton
  /\ event' = [type |-> "save", index |-> 0, enabled |-> ~rendered.saveDisabled]
  /\ IF rendered.saveDisabled
     THEN /\ calls' = <<>>
          /\ UNCHANGED <<state, nToggle>>
     ELSE /\ calls' = <<Call("updateViews", <<JSONstringify(props.viewState)>>)>>
          /\ nToggle' = 0
          /\ UNCHANGED state
  /\ rendered' = Render(props, state')
  /\ UNCHANGED props

SaveClickRawViewState ==
  /\ rendered.saveButton
  /\ event' = [type |-> "save", index |-> 0, enabled |-> ~rendered.saveDisabled]
  /\ IF rendered.saveDisabled
     THEN /\ calls' = <<>>
          /\ UNCHANGED <<state, nToggle>>
     ELSE /\ state' = [editMode |-> FALSE]
          /\ calls' = <<Call("updateViews", <<props.viewState>>)>>
          /\ nToggle' = 0
  /\ rendered' = Render(props, state')
  /\ UNCHANGED props

\* click on the Save Changes button; a disabled button runs no handler
SaveClick ==
  /\ rendered.saveButton
  /\ event' = [type |-> "save", index |-> 0, enabled |-> ~rendered.saveDisabled]
  /\ IF rendered.saveDisabled
     THEN /\ calls' = <<>>
          /\ UNCHANGED <<state, nToggle>>
     ELSE /\ state' = [editMode |-> FALSE]
          /\ calls' = <<Call("updateViews", <<JSONstringify(props.viewState)>>)>>
          /\ nToggle' = 0
  /\ rendered' = Render(props, state')
  /\ UNCHANGED props

TabChangeLeavesEditMode ==
  /\ rendered.tab
  /\ \E activeIndex \in 0..(Len(rendered.panes) - 1) :
       /\ calls' = <<Call("setActiveView",
                          <<props.viewType, TabIdOrIndex(props.tabs, activeIndex)>>)>>
       /\ event' = [type |-> "tabChange", index |-> activeIndex, enabled |-> TRUE]
  /\ state' = [editMode |-> FALSE]
  /\ rendered' = Render(props, state')
  /\ UNCHANGED <<props, nToggle>>

\* the tab strip reports a change to the pane with index activeIndex
TabChange ==
  /\ rendered.tab
  /\ \E activeIndex \in 0..(Len(rendered.panes) - 1) :
       /\ calls' = <<Call("setActiveView",
                          <<props.viewType, TabIdOrIndex(props.tabs, activeIndex)>>)>>
       /\ event' = [type |-> "tabChange", index |-> activeIndex, enabled |-> TRUE]
  /\ UNCHANGED <<props, state, rendered, nToggle>>

AddClickWrongName ==
  /\ rendered.tab
  /\ \E k \in 1..Len(rendered.panes) : rendered.panes[k].kind = "add"
  /\ calls' = <<Call("addView", <<props.viewType, Str("New Tab"), Arr(<<>>)>>)>>
  /\ event' = [type |-> "add", index |-> 0, enabled |-> TRUE]
  /\ UNCHANGED <<props, state, rendered, nToggle>>

\* click on the "+" menu item
AddClick ==
  /\ rendered.tab
  /\ \E k \in 1..Len(rendered.panes) : rendered.panes[k].kind = "add"
  /\ calls' = <<Call("addView", <<props.viewType, Str("New View"), Arr(<<>>)>>)>>
  /\ event' = [type |-> "add", index |-> 0, enabled |-> TRUE]
  /\ UNCHANGED <<props, state, rendered, nToggle>>

\* the parent re-renders the component with one prop changed
ReceiveProps ==
  /\ \/ \E v \in TabSets : props' = [props EXCEPT !.tabs = v]
     \/ \E v \in ViewRegistries : props' = [props EXCEPT !.views = v]
     \/ \E v \in ActiveViews : props' = [props EXCEPT !.activeView = v]
     \/ \E v \in BOOLEAN : props' = [props EXCEPT !.blank = v]
     \/ \E v \in ViewTypes : props' = [props EXCEPT !.viewType = v]
     \/ \E v \in BOOLEAN : props' = [props EXCEPT !.isModified = v]
     \/ \E v \in ViewStates : props' = [props EXCEPT !.viewState = v]
  /\ props' # props
  /\ RenderDoesNotThrow(props')
  /\ rendered' = Render(props', state)
  /\ calls' = <<>>
  /\ event' = [type |-> "props", index |-> 0, enabled |-> TRUE]
  /\ UNCHANGED <<state, nToggle>>

Next ==
  \/ ToggleClick
  \/ SaveClick
  \/ TabChange
  \/ AddClick
  \/ ReceiveProps

Spec == Init /\ [][Next]_vars

(***************************************************************************)
(* Properties.                                                             *)
(***************************************************************************)
HasCall(cs, fn) == \E k \in 1..Len(cs) : cs[k].fn = fn

C2_ToggleFlipsOnce ==
  /\ [][event'.type = "toggle" =>
          /\ state'.editMode = ~state.editMode
          /\ calls' = <<>>]_vars
  /\ [](nToggle < MaxToggles => (state.editMode <=> nToggle % 2 = 1))

C2_Witness ==
  /\ event.type = "toggle"
  /\ nToggle = 2
  /\ state.editMode = FALSE
  /\ calls = <<>>

\* C3: the active index of a render is the first position of activeView in
\* tabs when activeView occurs in tabs, and 0 when activeView is null,
\* undefined or absent from tabs, whatever editMode and blank are.
C3_ActiveIndexIsPosition ==
  LET tabs == props.tabs
      activeView == props.activeView
      present == activeView.t = "string" /\ activeView.s \in Range(tabs)
      i == rendered.activeIndex
  IN /\ present => /\ i \in 0..(Len(tabs) - 1)
                   /\ tabs[i + 1] = activeView.s
                   /\ \A j \in 1..i : tabs[j] # activeView.s
     /\ ~present => i = 0

C3_Witness ==
  /\ props.tabs = <<"", "a">>
  /\ props.activeView = Str("a")
  /\ rendered.activeIndex = 1
  /\ state.editMode
  /\ props.blank

\* C4: a tab change to index i calls setActiveView exactly once with
\* (viewType, tabs[i]) whenever i is a position in tabs, for every string
\* identifier including the empty string, and with (viewType, i) only when
\* tabs has no entry at i; editMode is left unchanged.
C4_TabChangePassesTabId ==
  [][event'.type = "tabChange" =>
       LET i == event'.index
       IN /\ calls' = <<Call("setActiveView",
                             <<props.viewType,
                               IF i < Len(props.tabs)
                               THEN Str(props.tabs[i + 1]) ELSE Num(i)>>)>>
          /\ state' = state]_vars

\* C5: the panes of a render are one view pane per entry of tabs, in tabs
\* order, followed by exactly one "+" pane in edit mode and by nothing
\* otherwise; the Save button is rendered exactly in edit mode.
C5_PanesFollowTabs ==
  LET tabs == props.tabs
      panes == rendered.panes
  IN /\ Len(panes) = Len(tabs) + (IF state.editMode THEN 1 ELSE 0)
     /\ \A k \in 1..Len(tabs) : panes[k].kind = "view" /\ panes[k].key = tabs[k]
     /\ state.editMode => panes[Len(tabs) + 1].kind = "add"
     /\ rendered.saveButton <=> state.editMode

C5_Witness ==
  /\ state.editMode
  /\ props.tabs = <<"a", "">>
  /\ Len(rendered.panes) = 3
  /\ rendered.panes[3].kind = "add"
  /\ rendered.saveButton

\* C6: the tab strip is rendered exactly when blank is false or editMode is
\* true; with blank true and editMode false neither a tab change nor an
\* add click is possible, a toggle click is, and it makes the strip appear.
C6_TabStripShown ==
  /\ [](rendered.tab <=> (~props.blank \/ state.editMode))
  /\ []((props.blank /\ ~state.editMode) =>
          /\ ~ENABLED TabChange
          /\ ~ENABLED AddClick
          /\ ENABLED ToggleClick)
  /\ [][(props.blank /\ ~state.editMode /\ event'.type = "toggle") =>
          rendered'.tab]_vars

C6_Witness ==
  /\ props.blank
  /\ state.editMode
  /\ rendered.tab
  /\ event.type = "toggle"
  /\ nToggle = 1

\* C7: addView is called only by a click on the "+" control, which needs
\* editMode true; the click calls addView(viewType, "New View", []) once
\* and leaves editMode unchanged; with editMode false no add click exists.
C7_AddViewOnlyInEditMode ==
  /\ [][HasCall(calls', "addView") =>
          /\ event'.type = "add"
          /\ state.editMode
          /\ state' = state
          /\ calls' = <<Call("addView", <<props.viewType, Str("New View"), Arr(<<>>)>>)>>]_vars
  /\ [][event'.type = "add" => HasCall(calls', "addView")]_vars
  /\ [](~state.editMode => ~ENABLED AddClick)

C7_Witness ==
  /\ event.type = "add"
  /\ HasCall(calls, "addView")
  /\ state.editMode
  /\ props.viewType = Str("run")

\* C8: editMode has two values and starts false; it changes only by a
\* toggle click (either direction) or by a Save click (true to false); a
\* toggle click always changes it and is enabled in every state.
C8_EditModeMachine ==
  /\ [](state.editMode \in BOOLEAN)
  /\ [](event.type = "mount" => state.editMode = FALSE)
  /\ [][state'.editMode # state.editMode =>
          \/ event'.type = "toggle"
          \/ event'.type = "save" /\ state.editMode /\ ~state'.editMode]_vars
  /\ [][event'.type \in {"tabChange", "add", "props"} => state' = state]_vars
  /\ [][event'.type = "toggle" => state'.editMode # state.editMode]_vars
  /\ [](ENABLED ToggleClick)

C8_Witness ==
  /\ event.type = "save"
  /\ event.enabled
  /\ state.editMode = FALSE
  /\ rendered.toggleContent = "Edit Charts"
  /\ rendered.saveButton = FALSE

\* C9 as stated: in every render 0 <= activeIndex < len(tabs), for every
\* tabs sequence including the empty one.
C9_ActiveIndexWithinTabs ==
  /\ 0 <= rendered.activeIndex
  /\ rendered.activeIndex < Len(props.tabs)

\* C9 amended: for every non-empty tabs sequence 0 <= activeIndex <
\* len(tabs) and the pane at activeIndex is a view pane; for the empty
\* sequence activeIndex is 0, which is the "+" pane in edit mode and no
\* pane otherwise.
C9_ActiveIndexWithinNonEmptyTabs ==
  /\ Len(props.tabs) > 0 =>
       /\ 0 <= rendered.activeIndex
       /\ rendered.activeIndex < Len(props.tabs)
       /\ rendered.panes[rendered.activeIndex + 1].kind = "view"
  /\ Len(props.tabs) = 0 =>
       /\ rendered.activeIndex = 0
       /\ state.editMode => rendered.panes[1].kind = "add"
       /\ ~state.editMode => rendered.panes = <<>>

C9_Witness ==
  /\ Len(props.tabs) = 2
  /\ props.activeView = Str("z")
  /\ rendered.activeIndex = 0
  /\ state.editMode

\* C10: updateViews is called only from a state with editMode and
\* isModified true, the state after the call has editMode false, and at
\* least one toggle click lies between the mount or the previous
\* updateViews call and this one.
C10_UpdateViewsNeedsEditMode ==
  [][HasCall(calls', "updateViews") =>
       /\ state.editMode
       /\ props.isModified
       /\ state'.editMode = FALSE
       /\ nToggle >= 1
       /\ nToggle' = 0]_vars

C10_Witness ==
  /\ HasCall(calls, "updateViews")
  /\ nToggle = 0
  /\ state.editMode = FALSE
  /\ props.isModified

====
